---- MODULE Spec2Model ----
(***************************************************************************)
(* Model of the dual-TEE coordination contract (rhombus-tech/POC1).        *)
(*                                                                         *)
(* Every action is one whole transaction of the contract: a panic (failed  *)
(* assert!, expect, panic!) aborts the transaction and the host discards   *)
(* its writes, so a panicking call is a call that is not enabled.  The one  *)
(* aborted call that is a step of its own is respond_to_challenge_rejected: *)
(* it leaves every persisted key as it was and is noted in expired_reads.  *)
(*                                                                         *)
(* Persisted keys that no property below reads (KeepId, DrawbridgeToken,   *)
(* AttestationStatus, HeartbeatTimestamp, LastGlobalUpdate, OperatorData,  *)
(* the contract addresses) are written by the handlers but are not part of *)
(* the state modelled here; the entrypoints of external/ log their stores  *)
(* and their outbound calls, in program order, in effects.                 *)
(* core/watchdog.rs calls the watchdog list `ready_tees`, every other file *)
(* calls it `watchdogs`; there is one WatchdogPool key, and the model      *)
(* keeps one list.  The off-chain ExecutorPool of executor/pool.rs shares  *)
(* no state with the contract and has its own variables and specification. *)
(***************************************************************************)
EXTENDS Integers, Sequences, FiniteSets, TLC

\* ------------------------------------------------------------------ bounds
MaxChallenges == 2
MaxCommitteeChallenges == 1
MaxTime == 101
MaxExecId == 1
MaxHeartbeats == 2
MaxPoolExecId == 2

\* --------------------------------------------------------------- constants
CHALLENGE_RESPONSE_WINDOW == 100

\* The identities that transact.  In a deployment e1 and e2 register as the
\* executors and w1, w2, w3 as watchdogs, each declaring the kind of its enclave;
\* SpecRegistry lets every identity of RegistryAddrs register as anything.
Addrs == {"e1", "e2", "w1", "w2", "w3"}
ExecutorCandidates == {<<"e1", "IntelSGX">>, <<"e2", "AMDSEV">>}
WatchdogCandidates == {<<"w1", "IntelSGX">>, <<"w2", "AMDSEV">>}
QuorumCandidates == WatchdogCandidates \cup {<<"w3", "IntelSGX">>}
RegistryAddrs == {"e1", "e2", "w1"}
NoAddr == "none"
EnclaveTypes == {"IntelSGX", "AMDSEV"}
ChallengeTypes == {"Attestation", "Execution"}
Hashes == {"hA", "hB"}
ExecIds == 1..MaxExecId
PoolExecIds == 1..MaxPoolExecId
\* context.contract_address(), the only caller init_token_contract accepts
ContractAddress == "contract"
Amounts == {1}
Reports == {"report"}
ChallengeData == {"data"}
Proofs == {"proof"}
\* ChallengeProof { proof_data, witness_signatures }: the witnesses are listed by
\* address; e2 is never in the watchdog set of a deployment
WitnessLists == {<<>>, <<"w1">>, <<"e2">>}
ChallengeProofs == [proof_data : Reports, witness_signatures : WitnessLists]
TimeSteps == {CHALLENGE_RESPONSE_WINDOW, CHALLENGE_RESPONSE_WINDOW + 1}

VARIABLES
    SystemInitialized,    \* SystemInitialized() => bool
    CurrentPhase,         \* CurrentPhase() => Phase
    sgx_executor,         \* ExecutorPool.sgx_executor
    sev_executor,         \* ExecutorPool.sev_executor
    failed_attempts,      \* ExecutorPool.failed_attempts
    watchdogs,            \* WatchdogPool.watchdogs, a list of <<address, type>>
    EnclaveType,          \* EnclaveType(Address) => EnclaveType, a partial map
    Challenge,            \* Challenge(u128) => Challenge, a partial map
    ChallengeCount,       \* ChallengeCount() => u128
    ActiveChallenges,     \* ActiveChallenges() => Vec<u128>
    ExecutionResult,      \* ExecutionResult(u128) => ExecutionResult, a partial map
    ExecutionVerified,    \* ExecutionVerified(u128) => bool, a partial map
    ExecutionMismatches,  \* ExecutionMismatches(u128) => (result, result)
    PendingVerifications, \* PendingVerifications() => Vec<u128>
    submissions,          \* history: the <<type, hash>> pairs accepted per execution id
    votes,                \* history: the <<watchdog, verdict>> pairs accepted per challenge id
    expired_reads,        \* history: the challenges an operation read while Pending past their deadline
    now,                  \* the host timestamp of the next transaction
    execution_count,      \* ExecutorPool.execution_count
    last_execution_time,  \* ExecutorPool.last_execution_time
    heartbeats,           \* history: the number of heartbeats accepted from an executor
    effects,              \* the stores and outbound calls of the last transaction of
                          \* external/, in program order
    state_lock,           \* off-chain pool: who holds ExecutorPool.state (tokio RwLock)
    verification_results, \* off-chain pool: PoolState.verification_results
    pool_pc,              \* off-chain pool: where the task driving the pool stands
    pool_returned         \* off-chain pool: the value the last finished call returned

poolVars == <<sgx_executor, sev_executor, failed_attempts>>
challengeVars == <<Challenge, ChallengeCount, ActiveChallenges, votes, expired_reads>>
executionVars == <<ExecutionResult, ExecutionVerified, ExecutionMismatches,
                   PendingVerifications, submissions>>
clockVars == <<now>>
statsVars == <<execution_count, last_execution_time, heartbeats>>
collaboratorVars == <<effects>>
offchainVars == <<state_lock, verification_results, pool_pc, pool_returned>>
vars == <<SystemInitialized, CurrentPhase, poolVars, watchdogs, EnclaveType,
          challengeVars, executionVars, clockVars, statsVars,
          collaboratorVars, offchainVars>>

\* ----------------------------------------------------------------- helpers
\* context.store_by_key on a keyed map
Put(m, k, v) == [x \in (DOMAIN m) \cup {k} |-> IF x = k THEN v ELSE m[x]]

EmptyMap == [x \in {} |-> 0]

SeqContains(s, x) == \E i \in 1..Len(s) : s[i] = x

\* Vec::retain(|&id| id != x)
RECURSIVE Retain(_, _)
Retain(s, x) ==
    IF s = <<>> THEN <<>>
    ELSE IF Head(s) = x THEN Retain(Tail(s), x)
         ELSE <<Head(s)>> \o Retain(Tail(s), x)

\* Vec::remove(idx)
RemoveAt(s, idx) == SubSeq(s, 1, idx - 1) \o SubSeq(s, idx + 1, Len(s))

\* watchdog_pool.watchdogs.iter().any(|(addr, _)| *addr == caller)
is_watchdog(caller) == \E i \in 1..Len(watchdogs) : watchdogs[i][1] = caller

is_executor(caller) == sgx_executor = caller \/ sev_executor = caller

ensure_initialized == SystemInitialized

ensure_phase(expected_phase) == CurrentPhase = expected_phase

\* The keep verifiers are stubs that accept every report.
verify_sgx_keep(attestation, token) == TRUE

verify_sev_keep(attestation, token) == TRUE

verify_attestation_report(attestation_report, drawbridge_token, enclave_type) ==
    IF enclave_type = "IntelSGX"
    THEN verify_sgx_keep(attestation_report, drawbridge_token)
    ELSE verify_sev_keep(attestation_report, drawbridge_token)

\* -------------------------------------------------------------------- init
Init ==
    /\ SystemInitialized = FALSE
    /\ CurrentPhase = "None"
    /\ sgx_executor = NoAddr
    /\ sev_executor = NoAddr
    /\ failed_attempts = 0
    /\ watchdogs = <<>>
    /\ EnclaveType = EmptyMap
    /\ Challenge = EmptyMap
    /\ ChallengeCount = 0
    /\ ActiveChallenges = <<>>
    /\ ExecutionResult = EmptyMap
    /\ ExecutionVerified = EmptyMap
    /\ ExecutionMismatches = EmptyMap
    /\ PendingVerifications = <<>>
    /\ submissions = [id \in ExecIds |-> {}]
    /\ votes = EmptyMap
    /\ expired_reads = {}
    /\ now = 0
    /\ execution_count = 0
    /\ last_execution_time = 0
    /\ heartbeats = 0
    /\ effects = <<>>
    /\ state_lock = "free"
    /\ verification_results = EmptyMap
    /\ pool_pc = "idle"
    /\ pool_returned = "none"

\* init without the check that the system is not yet initialized
init_again ==
    /\ SystemInitialized' = TRUE
    /\ CurrentPhase' = "Creation"
    /\ sgx_executor' = NoAddr
    /\ sev_executor' = NoAddr
    /\ failed_attempts' = 0
    /\ watchdogs' = <<>>
    /\ ChallengeCount' = 0
    /\ ActiveChallenges' = <<>>
    /\ execution_count' = 0
    /\ last_execution_time' = now
    /\ UNCHANGED <<EnclaveType, Challenge, votes, expired_reads, executionVars, clockVars,
                   heartbeats, collaboratorVars, offchainVars>>

init ==
    /\ ~SystemInitialized
    /\ SystemInitialized' = TRUE
    /\ CurrentPhase' = "Creation"
    /\ sgx_executor' = NoAddr
    /\ sev_executor' = NoAddr
    /\ failed_attempts' = 0
    /\ watchdogs' = <<>>
    /\ ChallengeCount' = 0
    /\ ActiveChallenges' = <<>>
    /\ execution_count' = 0
    /\ last_execution_time' = now
    /\ UNCHANGED <<EnclaveType, Challenge, votes, expired_reads, executionVars, clockVars,
                   heartbeats, collaboratorVars, offchainVars>>

\* The host supplies a non-decreasing timestamp.
Tick ==
    /\ \E d \in TimeSteps : now + d <= MaxTime /\ now' = now + d
    /\ UNCHANGED <<SystemInitialized, CurrentPhase, poolVars, watchdogs,
                   EnclaveType, challengeVars, executionVars, statsVars,
                   collaboratorVars, offchainVars>>

\* ---------------------------------------------------------------- registry
transition_to_executing == CurrentPhase' = "Executing"

\* register_executor moving to Executing as soon as either slot is filled
register_executor_any_slot(caller, enclave_type, attestation_report, drawbridge_token) ==
    /\ ensure_initialized
    /\ ensure_phase("Creation")
    /\ verify_attestation_report(attestation_report, drawbridge_token, enclave_type)
    /\ IF enclave_type = "IntelSGX"
       THEN /\ sgx_executor = NoAddr
            /\ sgx_executor' = caller
            /\ sev_executor' = sev_executor
       ELSE /\ sev_executor = NoAddr
            /\ sev_executor' = caller
            /\ sgx_executor' = sgx_executor
    /\ EnclaveType' = Put(EnclaveType, caller, enclave_type)
    /\ IF sgx_executor' # NoAddr \/ sev_executor' # NoAddr
       THEN transition_to_executing
       ELSE CurrentPhase' = CurrentPhase
    /\ UNCHANGED <<SystemInitialized, failed_attempts, watchdogs,
                   challengeVars, executionVars, clockVars, statsVars,
                   collaboratorVars, offchainVars>>

register_executor(caller, enclave_type, attestation_report, drawbridge_token) ==
    /\ ensure_initialized
    /\ ensure_phase("Creation")
    /\ verify_attestation_report(attestation_report, drawbridge_token, enclave_type)
    /\ IF enclave_type = "IntelSGX"
       THEN /\ sgx_executor = NoAddr
            /\ sgx_executor' = caller
            /\ sev_executor' = sev_executor
       ELSE /\ sev_executor = NoAddr
            /\ sev_executor' = caller
            /\ sgx_executor' = sgx_executor
    /\ EnclaveType' = Put(EnclaveType, caller, enclave_type)
    /\ IF sgx_executor' # NoAddr /\ sev_executor' # NoAddr
       THEN transition_to_executing
       ELSE CurrentPhase' = CurrentPhase
    /\ UNCHANGED <<SystemInitialized, failed_attempts, watchdogs,
                   challengeVars, executionVars, clockVars, statsVars,
                   collaboratorVars, offchainVars>>

register_ready_tee(caller, enclave_type, attestation_report, drawbridge_token) ==
    /\ ensure_initialized
    /\ verify_attestation_report(attestation_report, drawbridge_token, enclave_type)
    /\ ~is_watchdog(caller)
    /\ watchdogs' = Append(watchdogs, <<caller, enclave_type>>)
    /\ EnclaveType' = Put(EnclaveType, caller, enclave_type)
    /\ UNCHANGED <<SystemInitialized, CurrentPhase, poolVars,
                   challengeVars, executionVars, clockVars, statsVars,
                   collaboratorVars, offchainVars>>

\* replacement_idx taking the last watchdog of the kind (rposition) instead of the first
replacement_idx_last(failed_type) ==
    IF \E i \in 1..Len(watchdogs) : watchdogs[i][2] = failed_type
    THEN CHOOSE i \in 1..Len(watchdogs) :
            /\ watchdogs[i][2] = failed_type
            /\ \A j \in (i + 1)..Len(watchdogs) : watchdogs[j][2] # failed_type
    ELSE 0

\* watchdog_pool.ready_tees.iter().position(|(_, e_type)| *e_type == failed_type)
replacement_idx(failed_type) ==
    IF \E i \in 1..Len(watchdogs) : watchdogs[i][2] = failed_type
    THEN CHOOSE i \in 1..Len(watchdogs) :
            /\ watchdogs[i][2] = failed_type
            /\ \A j \in 1..(i - 1) : watchdogs[j][2] # failed_type
    ELSE 0

replace_executor(caller, failed_executor) ==
    /\ ensure_initialized
    /\ failed_executor \in DOMAIN EnclaveType
    /\ LET failed_type == EnclaveType[failed_executor]
           idx == replacement_idx(failed_type)
       IN /\ idx # 0
          /\ watchdogs' = RemoveAt(watchdogs, idx)
          /\ IF failed_type = "IntelSGX"
             THEN /\ sgx_executor' = watchdogs[idx][1]
                  /\ sev_executor' = sev_executor
             ELSE /\ sev_executor' = watchdogs[idx][1]
                  /\ sgx_executor' = sgx_executor
    /\ UNCHANGED <<SystemInitialized, CurrentPhase, failed_attempts, EnclaveType,
                   challengeVars, executionVars, clockVars, statsVars,
                   collaboratorVars, offchainVars>>

\* --------------------------------------------------------------- challenges
\* challenge_executor_allowed without the check that the caller is a watchdog
challenge_executor_allowed_any_caller(phase, caller, executor) ==
    /\ ensure_initialized
    /\ phase = "Executing"
    /\ (sgx_executor = executor \/ sev_executor = executor)

\* challenge_executor_allowed without ensure_phase(Executing)
challenge_executor_allowed_any_phase(phase, caller, executor) ==
    /\ ensure_initialized
    /\ is_watchdog(caller)
    /\ (sgx_executor = executor \/ sev_executor = executor)

\* challenge_executor's checks, evaluated against the phase the call sees
challenge_executor_allowed(phase, caller, executor) ==
    /\ ensure_initialized
    /\ phase = "Executing"
    /\ is_watchdog(caller)
    /\ (sgx_executor = executor \/ sev_executor = executor)

\* new_challenge with the deadline set to the creation time
new_challenge_no_window(challenge_id, caller, executor, challenge_type, challenge_data, timestamp) ==
    [id |-> challenge_id,
     challenger |-> caller,
     challenged |-> executor,
     challenge_type |-> challenge_type,
     challenge_data |-> challenge_data,
     response_deadline |-> timestamp,
     status |-> "Pending",
     verification_proofs |-> <<>>]

new_challenge(challenge_id, caller, executor, challenge_type, challenge_data, timestamp) ==
    [id |-> challenge_id,
     challenger |-> caller,
     challenged |-> executor,
     challenge_type |-> challenge_type,
     challenge_data |-> challenge_data,
     response_deadline |-> timestamp + CHALLENGE_RESPONSE_WINDOW,
     status |-> "Pending",
     verification_proofs |-> <<>>]

challenge_executor(caller, executor, challenge_type, challenge_data) ==
    /\ challenge_executor_allowed(CurrentPhase, caller, executor)
    /\ ChallengeCount < MaxChallenges
    /\ LET challenge_id == ChallengeCount + 1
       IN /\ Challenge' = Put(Challenge, challenge_id,
                 new_challenge(challenge_id, caller, executor, challenge_type,
                               challenge_data, now))
          /\ ChallengeCount' = challenge_id
          /\ ActiveChallenges' = Append(ActiveChallenges, challenge_id)
          /\ votes' = Put(votes, challenge_id, {})
    /\ CurrentPhase' = "ChallengeExecutor"
    /\ UNCHANGED <<SystemInitialized, poolVars, watchdogs, EnclaveType,
                   expired_reads, executionVars, clockVars, statsVars,
                   collaboratorVars, offchainVars>>

\* response.rs: remove the failed executor, count the failure
handle_failed_challenge(challenged) ==
    /\ IF challenged = sgx_executor
       THEN sgx_executor' = NoAddr /\ sev_executor' = sev_executor
       ELSE IF challenged = sev_executor
            THEN sev_executor' = NoAddr /\ sgx_executor' = sgx_executor
            ELSE UNCHANGED <<sgx_executor, sev_executor>>
    /\ failed_attempts' = failed_attempts + 1

\* respond_allowed with a deadline that excludes the deadline itself
respond_allowed_strict(caller, challenge_id) ==
    /\ ensure_initialized
    /\ challenge_id \in DOMAIN Challenge
    /\ Challenge[challenge_id].challenged = caller
    /\ Challenge[challenge_id].status = "Pending"
    /\ now < Challenge[challenge_id].response_deadline

respond_allowed(caller, challenge_id) ==
    /\ ensure_initialized
    /\ challenge_id \in DOMAIN Challenge
    /\ Challenge[challenge_id].challenged = caller
    /\ Challenge[challenge_id].status = "Pending"
    /\ now <= Challenge[challenge_id].response_deadline

\* every witness of the proof is in the watchdog set
verify_challenge_proof(proof) ==
    \A i \in 1..Len(proof.witness_signatures) : is_watchdog(proof.witness_signatures[i])

\* respond_to_challenge calls verify_challenge_proof and discards what it returns
respond_to_challenge(caller, challenge_id, response_data, proof) ==
    /\ respond_allowed(caller, challenge_id)
    /\ LET challenge == Challenge[challenge_id]
           proof_verified == verify_challenge_proof(proof)
       IN /\ Challenge' = Put(Challenge, challenge_id,
                 [challenge EXCEPT
                     !.status = "Responded",
                     !.verification_proofs = Append(@, response_data)])
          /\ IF challenge.challenge_type = "Attestation"
                /\ ~verify_attestation_report(proof.proof_data, "", "IntelSGX")
             THEN handle_failed_challenge(challenge.challenged)
             ELSE UNCHANGED poolVars
    /\ UNCHANGED <<SystemInitialized, CurrentPhase, watchdogs, EnclaveType,
                   ChallengeCount, ActiveChallenges, votes, expired_reads,
                   executionVars, clockVars, statsVars,
                   collaboratorVars, offchainVars>>

\* verification.rs: remove the failed executor, crash when no executor remains
handle_challenge_failure(challenged) ==
    /\ IF challenged = sgx_executor
       THEN sgx_executor' = NoAddr /\ sev_executor' = sev_executor
       ELSE IF challenged = sev_executor
            THEN sev_executor' = NoAddr /\ sgx_executor' = sgx_executor
            ELSE UNCHANGED <<sgx_executor, sev_executor>>
    /\ failed_attempts' = failed_attempts + 1
    /\ IF sgx_executor' = NoAddr /\ sev_executor' = NoAddr
       THEN CurrentPhase' = "Crashed"
       ELSE CurrentPhase' = CurrentPhase

\* verify_allowed without the check that the caller is a watchdog
verify_allowed_any_caller(caller, challenge_id) ==
    /\ ensure_initialized
    /\ challenge_id \in DOMAIN Challenge
    /\ Challenge[challenge_id].status = "Responded"

\* verify_allowed without the check that the challenge awaits verification
verify_allowed_any_status(caller, challenge_id) ==
    /\ ensure_initialized
    /\ is_watchdog(caller)
    /\ challenge_id \in DOMAIN Challenge

verify_allowed(caller, challenge_id) ==
    /\ ensure_initialized
    /\ is_watchdog(caller)
    /\ challenge_id \in DOMAIN Challenge
    /\ Challenge[challenge_id].status = "Responded"

\* (watchdog_pool.watchdogs.len() * 2) / 3 + 1
\* required_verifications without the division by three
required_verifications_undivided == Len(watchdogs) * 2 + 1

required_verifications == (Len(watchdogs) * 2) \div 3 + 1

\* the status a challenge takes once `proofs` holds the new proof
verification_outcome(proofs, verification_result) ==
    IF Len(proofs) >= required_verifications
    THEN IF verification_result THEN "Verified" ELSE "Failed"
    ELSE "Responded"

verify_challenge_response(caller, challenge_id, verification_result, verification_proof) ==
    /\ verify_allowed(caller, challenge_id)
    /\ LET challenge == Challenge[challenge_id]
           proofs == Append(challenge.verification_proofs, verification_proof)
           status == verification_outcome(proofs, verification_result)
       IN /\ Challenge' = Put(Challenge, challenge_id,
                 [challenge EXCEPT !.status = status,
                                   !.verification_proofs = proofs])
          /\ CASE status = "Verified" ->
                    transition_to_executing /\ UNCHANGED poolVars
               [] status = "Failed" ->
                    handle_challenge_failure(challenge.challenged)
               [] OTHER -> UNCHANGED <<CurrentPhase, poolVars>>
    /\ votes' = [votes EXCEPT ![challenge_id] = @ \cup {<<caller, verification_result>>}]
    /\ UNCHANGED <<SystemInitialized, watchdogs, EnclaveType, ChallengeCount,
                   ActiveChallenges, expired_reads, executionVars, clockVars, statsVars,
                   collaboratorVars, offchainVars>>

\* respond_to_challenge by the challenged party on a Pending challenge after
\* the deadline: assert!(timestamp <= challenge.response_deadline) fails, the
\* transaction aborts and no key is written
respond_to_challenge_rejected(caller, challenge_id) ==
    /\ ensure_initialized
    /\ challenge_id \in DOMAIN Challenge
    /\ Challenge[challenge_id].challenged = caller
    /\ Challenge[challenge_id].status = "Pending"
    /\ ~(now <= Challenge[challenge_id].response_deadline)
    /\ expired_reads' = expired_reads \cup {challenge_id}
    /\ UNCHANGED <<SystemInitialized, CurrentPhase, poolVars, watchdogs, EnclaveType,
                   Challenge, ChallengeCount, ActiveChallenges, votes,
                   executionVars, clockVars, statsVars,
                   collaboratorVars, offchainVars>>

\* get_challenge_stats loads every active challenge, counts the statuses and
\* writes nothing
get_challenge_stats(caller) ==
    /\ ensure_initialized
    /\ expired_reads' = expired_reads \cup
          {id \in DOMAIN Challenge :
              /\ SeqContains(ActiveChallenges, id)
              /\ Challenge[id].status = "Pending"
              /\ now > Challenge[id].response_deadline}
    /\ UNCHANGED <<SystemInitialized, CurrentPhase, poolVars, watchdogs, EnclaveType,
                   Challenge, ChallengeCount, ActiveChallenges, votes,
                   executionVars, clockVars, statsVars,
                   collaboratorVars, offchainVars>>

\* ---------------------------------------------------------------- execution
\* get_executor_result reads the one ExecutionResult(execution_id) key of `results`
\* and returns it only when it is of the asked type; <<>> stands for None
get_executor_result(results, execution_id, enclave_type) ==
    IF execution_id \in DOMAIN results /\ results[execution_id].enclave_type = enclave_type
    THEN <<results[execution_id]>>
    ELSE <<>>

\* execution_id.to_le_bytes() ++ sgx hash ++ sev hash
create_verification_challenge(execution_id, sgx_result, sev_result) ==
    <<execution_id, sgx_result.result_hash, sev_result.result_hash>>

\* handle_execution_mismatch stores the phase, then create_dual_challenge calls
\* challenge_executor twice as the submitting caller; the second call sees the
\* phase and the pool the first one left.
handle_execution_mismatch(caller, execution_id, sgx, sev) ==
    LET challenge_data == create_verification_challenge(execution_id, sgx, sev)
        id1 == ChallengeCount + 1
        id2 == ChallengeCount + 2
    IN /\ challenge_executor_allowed("ChallengeExecutor", caller, sgx.executor)
       /\ challenge_executor_allowed("ChallengeExecutor", caller, sev.executor)
       /\ Challenge' = Put(Put(Challenge, id1,
                new_challenge(id1, caller, sgx.executor, "Execution", challenge_data, now)),
                id2, new_challenge(id2, caller, sev.executor, "Execution", challenge_data, now))
       /\ ChallengeCount' = id2
       /\ ActiveChallenges' = Append(Append(ActiveChallenges, id1), id2)
       /\ votes' = Put(Put(votes, id1, {}), id2, {})
       /\ UNCHANGED expired_reads
       /\ CurrentPhase' = "ChallengeExecutor"

\* the second half of submit_execution_result, run on the results just stored
verify_execution_match(caller, execution_id, results) ==
    LET sgx_result == get_executor_result(results, execution_id, "IntelSGX")
        sev_result == get_executor_result(results, execution_id, "AMDSEV")
    IN IF sgx_result # <<>> /\ sev_result # <<>>
       THEN /\ IF sgx_result[1].result_hash = sev_result[1].result_hash
               THEN /\ ExecutionVerified' = Put(ExecutionVerified, execution_id, TRUE)
                    /\ UNCHANGED <<ExecutionMismatches, CurrentPhase, challengeVars>>
               ELSE /\ ExecutionMismatches' = Put(ExecutionMismatches, execution_id,
                                                  <<sgx_result[1], sev_result[1]>>)
                    /\ handle_execution_mismatch(caller, execution_id,
                                                 sgx_result[1], sev_result[1])
                    /\ UNCHANGED ExecutionVerified
            /\ PendingVerifications' = Retain(PendingVerifications, execution_id)
       ELSE UNCHANGED <<ExecutionVerified, ExecutionMismatches, PendingVerifications,
                        CurrentPhase, challengeVars>>

\* the type of the slot the caller occupies, the SGX slot first
executor_type_of(caller) ==
    IF caller = sgx_executor THEN "IntelSGX"
    ELSE IF caller = sev_executor THEN "AMDSEV"
    ELSE "unauthorized"

submit_execution_result(caller, execution_id, result_hash) ==
    /\ SystemInitialized
    /\ executor_type_of(caller) # "unauthorized"
    /\ LET result == [result_hash |-> result_hash,
                      executor |-> caller,
                      enclave_type |-> executor_type_of(caller)]
           results == Put(ExecutionResult, execution_id, result)
       IN /\ ExecutionResult' = results
          /\ IF ~SeqContains(PendingVerifications, execution_id)
             THEN /\ PendingVerifications' = Append(PendingVerifications, execution_id)
                  /\ UNCHANGED <<ExecutionVerified, ExecutionMismatches,
                                 CurrentPhase, challengeVars>>
             ELSE verify_execution_match(caller, execution_id, results)
          /\ submissions' = [submissions EXCEPT ![execution_id] =
                                @ \cup {<<result.enclave_type, result_hash>>}]
    /\ UNCHANGED <<SystemInitialized, poolVars, watchdogs, EnclaveType, clockVars, statsVars,
                   collaboratorVars, offchainVars>>

\* ---------------------------------------------------------------- heartbeat
submit_heartbeat(caller) ==
    /\ ensure_initialized
    /\ is_executor(caller) \/ is_watchdog(caller)
    /\ IF is_executor(caller)
       THEN /\ execution_count < MaxHeartbeats
            /\ last_execution_time' = now
            /\ execution_count' = execution_count + 1
            /\ heartbeats' = heartbeats + 1
       ELSE UNCHANGED statsVars
    /\ UNCHANGED <<SystemInitialized, CurrentPhase, poolVars, watchdogs, EnclaveType,
                   challengeVars, executionVars, clockVars, collaboratorVars,
                   offchainVars>>

\* ------------------------------------------------------------ collaborators
\* An entry of effects: a store into a key of this contract, or a call that
\* leaves it (a collaborator contract, or the host deploying one).
Store(key) == <<"store", key>>

Call(target, function) == <<"call", target, function>>

\* every key and variable of the contract that the entrypoints of external/ read
coreVars == <<SystemInitialized, CurrentPhase, poolVars, watchdogs, EnclaveType,
              challengeVars, executionVars, clockVars, statsVars, offchainVars>>

update_global_state == <<Store("LastGlobalUpdate")>>

record_token_interaction == update_global_state

init_token_contract(caller, initial_supply) ==
    /\ ensure_initialized
    /\ caller = ContractAddress
    /\ effects' = <<Call("host", "deploy"), Call("token", "init"),
                    Store("TokenContract"), Call("token", "mint")>>
    /\ UNCHANGED coreVars

stake_tokens(caller, amount) ==
    /\ ensure_initialized
    /\ is_executor(caller) \/ is_watchdog(caller)
    /\ effects' = <<Call("token", "transfer_from")>> \o record_token_interaction
    /\ UNCHANGED coreVars

distribute_rewards(caller) ==
    /\ ensure_initialized
    /\ ensure_phase("Executing")
    /\ effects' = <<Call("token", "balance_of")>>
                  \o (IF sgx_executor # NoAddr THEN <<Call("token", "transfer")>> ELSE <<>>)
                  \o (IF sev_executor # NoAddr THEN <<Call("token", "transfer")>> ELSE <<>>)
                  \o [i \in 1..Len(watchdogs) |-> Call("token", "transfer")]
    /\ UNCHANGED coreVars

create_governance_proposal(caller) ==
    /\ ensure_initialized
    /\ is_executor(caller) \/ is_watchdog(caller)
    /\ effects' = <<Call("governance", "create_proposal")>>
    /\ UNCHANGED coreVars

\* ----------------------------------------------------------- off-chain pool
\* executor/pool.rs: one task drives the pool (every method takes &mut self).
\* state_lock is the tokio RwLock around PoolState: "free", or the kind of the
\* guard that is alive.  A guard lives until the function that took it returns.
onchainVars == <<SystemInitialized, CurrentPhase, poolVars, watchdogs, EnclaveType,
                 challengeVars, executionVars, clockVars, statsVars, collaboratorVars>>

\* ExecutorPool::execute: both executors answer and the pair is stored
execute(execution_id, sgx_hash, sev_hash) ==
    /\ pool_pc = "idle"
    /\ state_lock = "free"
    /\ verification_results' =
           Put(verification_results, execution_id,
               [sgx_result |-> sgx_hash, sev_result |-> sev_hash, verified |-> FALSE])
    /\ pool_returned' = "Ok(result)"
    /\ UNCHANGED <<state_lock, pool_pc, onchainVars>>

\* initiate_mismatch_challenge entered while the guard `held` is alive: read()
\* is granted only when no write guard is alive; the two challenges are then
\* built and store_challenge asks for write() under the read guard of line 307.
initiate_mismatch_challenge(held) ==
    IF held = "write"
    THEN /\ pool_pc' = "initiate_mismatch_challenge:307"
         /\ state_lock' = "write"
         /\ UNCHANGED pool_returned
    ELSE /\ pool_pc' = "store_challenge:445"
         /\ state_lock' = "read"
         /\ UNCHANGED pool_returned

verify_execution_results(execution_id) ==
    /\ pool_pc = "idle"
    /\ state_lock = "free"
    /\ IF execution_id \notin DOMAIN verification_results
       THEN /\ pool_returned' = "Err(ExecutionNotFound)"
            /\ UNCHANGED <<state_lock, verification_results, pool_pc>>
       ELSE LET pair == verification_results[execution_id]
                verified == pair.sgx_result = pair.sev_result
            IN /\ verification_results' =
                      [verification_results EXCEPT ![execution_id].verified = verified]
               /\ IF verified
                  THEN /\ pool_returned' = "Ok(true)"
                       /\ UNCHANGED <<state_lock, pool_pc>>
                  ELSE initiate_mismatch_challenge("write")
    /\ UNCHANGED onchainVars


\* ---------------------------------------------------------- specifications
\* The committee: the executors and two watchdogs register with their own kinds;
\* any identity may then call any entrypoint of the registry and of the challenge
\* protocol.  submit_execution_result is left to SpecExecution: it writes only the
\* execution keys, which no other handler reads (its one path into the challenge
\* keys, handle_execution_mismatch, never commits).
Next ==
    \/ init
    \/ Tick
    \/ \E c \in ExecutorCandidates, r \in Reports :
          register_executor(c[1], c[2], r, r)
    \/ \E c \in WatchdogCandidates, r \in Reports :
          register_ready_tee(c[1], c[2], r, r)
    \/ \E caller \in Addrs, failed \in Addrs : replace_executor(caller, failed)
    \/ \E caller \in Addrs, executor \in Addrs, t \in ChallengeTypes, d \in ChallengeData :
          /\ ChallengeCount < MaxCommitteeChallenges
          /\ challenge_executor(caller, executor, t, d)
    \/ \E caller \in Addrs, id \in DOMAIN Challenge, p \in Proofs, proof \in ChallengeProofs :
          respond_to_challenge(caller, id, p, proof)
    \/ \E caller \in Addrs, id \in DOMAIN Challenge, v \in BOOLEAN, p \in Proofs :
          verify_challenge_response(caller, id, v, p)

Spec == Init /\ [][Next]_vars

\* The registry alone, with every identity free to register as an executor or a
\* watchdog of either kind and to ask for any replacement.
NextRegistry ==
    \/ init
    \/ \E caller \in RegistryAddrs, t \in EnclaveTypes, r \in Reports :
          register_executor(caller, t, r, r)
    \/ \E caller \in RegistryAddrs, t \in EnclaveTypes, r \in Reports :
          register_ready_tee(caller, t, r, r)
    \/ \E caller \in RegistryAddrs, failed \in RegistryAddrs :
          replace_executor(caller, failed)

SpecRegistry == Init /\ [][NextRegistry]_vars

\* A challenge voted on by a watchdog set of up to three.
NextQuorum ==
    \/ init
    \/ \E c \in ExecutorCandidates, r \in Reports :
          register_executor(c[1], c[2], r, r)
    \/ \E c \in QuorumCandidates, r \in Reports :
          register_ready_tee(c[1], c[2], r, r)
    \/ \E caller \in Addrs, executor \in Addrs, t \in ChallengeTypes, d \in ChallengeData :
          /\ ChallengeCount < MaxCommitteeChallenges
          /\ challenge_executor(caller, executor, t, d)
    \/ \E caller \in Addrs, id \in DOMAIN Challenge, p \in Proofs, proof \in ChallengeProofs :
          respond_to_challenge(caller, id, p, proof)
    \/ \E caller \in Addrs, id \in DOMAIN Challenge, v \in BOOLEAN, p \in Proofs :
          verify_challenge_response(caller, id, v, p)

SpecQuorum == Init /\ [][NextQuorum]_vars

\* The execution reconciler on top of the registry.
NextExecution ==
    \/ init
    \/ \E c \in ExecutorCandidates, r \in Reports :
          register_executor(c[1], c[2], r, r)
    \/ \E c \in WatchdogCandidates, r \in Reports :
          register_ready_tee(c[1], c[2], r, r)
    \/ \E caller \in Addrs, failed \in Addrs : replace_executor(caller, failed)
    \/ \E caller \in Addrs, id \in ExecIds, h \in Hashes :
          submit_execution_result(caller, id, h)

SpecExecution == Init /\ [][NextExecution]_vars

\* A challenge running into its deadline: the challenge protocol with the clock,
\* the rejected late response and the statistics query.
NextDeadline ==
    \/ init
    \/ Tick
    \/ \E c \in ExecutorCandidates, r \in Reports :
          register_executor(c[1], c[2], r, r)
    \/ \E c \in WatchdogCandidates, r \in Reports :
          register_ready_tee(c[1], c[2], r, r)
    \/ \E caller \in Addrs, executor \in Addrs, t \in ChallengeTypes, d \in ChallengeData :
          challenge_executor(caller, executor, t, d)
    \/ \E caller \in Addrs, id \in DOMAIN Challenge, p \in Proofs, proof \in ChallengeProofs :
          respond_to_challenge(caller, id, p, proof)
    \/ \E caller \in Addrs, id \in DOMAIN Challenge, v \in BOOLEAN, p \in Proofs :
          verify_challenge_response(caller, id, v, p)
    \/ \E caller \in Addrs, id \in DOMAIN Challenge :
          respond_to_challenge_rejected(caller, id)
    \/ \E caller \in Addrs : get_challenge_stats(caller)

SpecDeadline == Init /\ [][NextDeadline]_vars

\* The liveness reports of the committee, with replacement.
NextHeartbeat ==
    \/ init
    \/ Tick
    \/ \E c \in ExecutorCandidates, r \in Reports :
          register_executor(c[1], c[2], r, r)
    \/ \E c \in WatchdogCandidates, r \in Reports :
          register_ready_tee(c[1], c[2], r, r)
    \/ \E caller \in Addrs, failed \in Addrs : replace_executor(caller, failed)
    \/ \E caller \in Addrs : submit_heartbeat(caller)

SpecHeartbeat == Init /\ [][NextHeartbeat]_vars

\* The entrypoints that call the token and governance contracts, on top of the
\* registry.
NextCollaborators ==
    \/ init
    \/ \E c \in ExecutorCandidates, r \in Reports :
          register_executor(c[1], c[2], r, r)
    \/ \E c \in WatchdogCandidates, r \in Reports :
          register_ready_tee(c[1], c[2], r, r)
    \/ \E caller \in Addrs, failed \in Addrs : replace_executor(caller, failed)
    \/ \E caller \in Addrs \cup {ContractAddress}, a \in Amounts :
          init_token_contract(caller, a)
    \/ \E caller \in Addrs, a \in Amounts : stake_tokens(caller, a)
    \/ \E caller \in Addrs : distribute_rewards(caller)
    \/ \E caller \in Addrs : create_governance_proposal(caller)

SpecCollaborators == Init /\ [][NextCollaborators]_vars

\* The off-chain executor pool: executions and their reconciliation.
NextPool ==
    \/ \E id \in PoolExecIds, a \in Hashes, b \in Hashes : execute(id, a, b)
    \/ \E id \in PoolExecIds : verify_execution_results(id)

SpecPool == Init /\ [][NextPool]_vars

\* ------------------------------------------------------------------ claims
BothSlotsFilled == sgx_executor # NoAddr /\ sev_executor # NoAddr

\* C1: in every reachable state both executor slots are occupied if and only if
\* the phase is Executing or ChallengeExecutor.
C1_PhaseMatchesSlots ==
    BothSlotsFilled <=> CurrentPhase \in {"Executing", "ChallengeExecutor"}

\* C2: in every reachable state no identity is both in the watchdog set and in
\* an executor slot.
C2_WatchdogsDisjointFromExecutors ==
    \A i \in 1..Len(watchdogs) :
        watchdogs[i][1] # sgx_executor /\ watchdogs[i][1] # sev_executor

StoredKindIs(addr, kind) == addr \in DOMAIN EnclaveType /\ EnclaveType[addr] = kind

\* C3: in every reachable state the occupant of the SGX slot has stored kind
\* IntelSGX and the occupant of the SEV slot has stored kind AMDSEV.
C3_SlotTyping ==
    /\ sgx_executor # NoAddr => StoredKindIs(sgx_executor, "IntelSGX")
    /\ sev_executor # NoAddr => StoredKindIs(sev_executor, "AMDSEV")

\* Q = floor(2W/3) + 1 for a watchdog set of size W
Quorum(W) == (2 * W) \div 3 + 1

\* the distinct watchdogs that submitted verdict = true on a challenge
TrueVoters(allVotes, id) == {w \in Addrs : <<w, TRUE>> \in allVotes[id]}

BecomesVerified(id) ==
    /\ id \in DOMAIN Challenge'
    /\ Challenge'[id].status = "Verified"
    /\ (id \notin DOMAIN Challenge \/ Challenge[id].status # "Verified")

\* C4: a step makes a challenge Verified only if at least Q distinct watchdogs
\* have by then submitted verdict = true on it, W being the size of the
\* watchdog set; the response and the verdict = false submissions do not count.
C4_VerifiedNeedsQuorum ==
    [][\A id \in 1..(ChallengeCount + 2) :
          BecomesVerified(id) =>
             Cardinality(TrueVoters(votes', id)) >= Quorum(Len(watchdogs))]_vars

HasVoted(w, id) == \E v \in BOOLEAN : <<w, v>> \in votes[id]

\* C5: a verify_response by a watchdog that already submitted one on the same
\* challenge leaves the number of counted proofs and the status unchanged.
C5_DuplicateVerifyCountsOnce ==
    [][\A w \in Addrs, id \in DOMAIN Challenge, v \in BOOLEAN, p \in Proofs :
          (HasVoted(w, id) /\ verify_challenge_response(w, id, v, p)) =>
             /\ Len(Challenge'[id].verification_proofs)
                   = Len(Challenge[id].verification_proofs)
             /\ Challenge'[id].status = Challenge[id].status]_vars

AllowedStatusChanges ==
    {<<"Pending", "Responded">>, <<"Responded", "Verified">>,
     <<"Responded", "Failed">>, <<"Pending", "Expired">>}

\* C6: every change of a challenge's status is Pending to Responded, Responded
\* to Verified, Responded to Failed or Pending to Expired; a stored challenge is
\* never removed and a terminal status never changes.
C6_StatusMonotone ==
    [][\A id \in DOMAIN Challenge :
          /\ id \in DOMAIN Challenge'
          /\ Challenge'[id].status # Challenge[id].status =>
                <<Challenge[id].status, Challenge'[id].status>> \in AllowedStatusChanges]_vars

\* a challenge has been responded to and then resolved by a verification
C6_Witness ==
    \E id \in DOMAIN Challenge :
        /\ Challenge[id].status \in {"Verified", "Failed"}
        /\ votes[id] # {}

\* the kinds for which a submit_execution_result on `id` has been accepted
RecordedKinds(id) == {k \in EnclaveTypes : \E h \in Hashes : <<k, h>> \in submissions[id]}

IsVerified(id) == id \in DOMAIN ExecutionVerified /\ ExecutionVerified[id]

\* C7: an execution id is in PendingVerifications exactly when exactly one of
\* the SGX-class and SEV-class results has been recorded for it.
C7_PendingIffOneRecorded ==
    \A id \in ExecIds :
        SeqContains(PendingVerifications, id) <=> Cardinality(RecordedKinds(id)) = 1

\* C9: once the SGX-slot executor and the SEV-slot executor have each submitted
\* the same hash for an id, ExecutionVerified(id) is true and id is not pending.
C9_MatchingResultsVerified ==
    \A id \in ExecIds, h \in Hashes :
        submissions[id] = {<<"IntelSGX", h>>, <<"AMDSEV", h>>} =>
            IsVerified(id) /\ ~SeqContains(PendingVerifications, id)

\* the submissions on `id` are one SGX-class and one SEV-class result that differ
DifferingPair(subs, id) ==
    \E h1 \in Hashes, h2 \in Hashes :
        h1 # h2 /\ subs[id] = {<<"IntelSGX", h1>>, <<"AMDSEV", h2>>}

\* an Execution challenge against `executor` whose data holds both hashes of `id`
MismatchChallengeExists(executor, id, allChallenges, mismatches) ==
    \E c \in DOMAIN allChallenges :
        /\ allChallenges[c].challenged = executor
        /\ allChallenges[c].challenge_type = "Execution"
        /\ allChallenges[c].challenge_data =
              <<id, mismatches[id][1].result_hash, mismatches[id][2].result_hash>>

\* C10: the submission that completes a differing pair of results for an id
\* leaves phase = ChallengeExecutor, ExecutionVerified(id) not true, both results
\* under ExecutionMismatches(id) and one Execution challenge per executor.
C10_MismatchOpensChallenges ==
    [][\A id \in ExecIds :
          (~DifferingPair(submissions, id) /\ DifferingPair(submissions', id)) =>
             /\ CurrentPhase' = "ChallengeExecutor"
             /\ ~(id \in DOMAIN ExecutionVerified' /\ ExecutionVerified'[id])
             /\ id \in DOMAIN ExecutionMismatches'
             /\ MismatchChallengeExists(sgx_executor', id, Challenge', ExecutionMismatches')
             /\ MismatchChallengeExists(sev_executor', id, Challenge', ExecutionMismatches')]_vars

LegalTransitions ==
    {<<"None", "Creation">>, <<"Creation", "Executing">>,
     <<"Executing", "ChallengeExecutor">>, <<"ChallengeExecutor", "Executing">>,
     <<"ChallengeExecutor", "Crashed">>, <<"Executing", "Crashed">>}

\* C15: every change of CurrentPhase is None to Creation, Creation to Executing,
\* Executing to ChallengeExecutor, ChallengeExecutor to Executing,
\* ChallengeExecutor to Crashed or Executing to Crashed.
C15_LegalTransitionsOnly ==
    [][CurrentPhase' # CurrentPhase =>
          <<CurrentPhase, CurrentPhase'>> \in LegalTransitions]_vars

\* the phase has gone to ChallengeExecutor and come back on a Verified challenge
C15_Witness ==
    /\ CurrentPhase = "Executing"
    /\ \E id \in DOMAIN Challenge : Challenge[id].status = "Verified"

BecomesFailed(id) ==
    /\ Challenge[id].status # "Failed"
    /\ id \in DOMAIN Challenge'
    /\ Challenge'[id].status = "Failed"

\* C16: when a challenge against an executor fails while a watchdog of the
\* executor's kind is in the pool, the step that fails it leaves a watchdog of
\* that kind in the vacated slot and out of the watchdog set, and the phase at
\* Executing.
C16_FailureReplacesExecutor ==
    [][\A id \in DOMAIN Challenge :
          LET kind == executor_type_of(Challenge[id].challenged)
          IN (BecomesFailed(id) /\ kind \in EnclaveTypes /\ replacement_idx(kind) # 0) =>
                /\ \E i \in 1..Len(watchdogs) :
                      /\ watchdogs[i][2] = kind
                      /\ (IF kind = "IntelSGX" THEN sgx_executor' ELSE sev_executor')
                            = watchdogs[i][1]
                      /\ \A j \in 1..Len(watchdogs') : watchdogs'[j][1] # watchdogs[i][1]
                /\ CurrentPhase' = "Executing"]_vars

\* C18: a step in which an operation reads a challenge that is Pending past its
\* deadline leaves the challenge Expired and its challenged executor out of the
\* executor slots.
C18_ExpiredOnRead ==
    [][\A id \in DOMAIN Challenge :
          (id \notin expired_reads /\ id \in expired_reads') =>
             /\ Challenge'[id].status = "Expired"
             /\ sgx_executor' # Challenge[id].challenged
             /\ sev_executor' # Challenge[id].challenged]_vars

\* C19: for every execution id at most one result per kind is ever accepted: a
\* second submission by an executor of a kind already recorded is rejected.
C19_FirstWriteWins ==
    \A id \in ExecIds, k \in EnclaveTypes :
        Cardinality({h \in Hashes : <<k, h>> \in submissions[id]}) <= 1

\* C20: a register_executor step starts in Creation, stores the registrant in
\* the slot of its declared kind, and leaves the phase at Executing when both
\* slots are then filled and at Creation otherwise.
C20_RegistrationDrivesPhase ==
    [][\A caller \in RegistryAddrs, t \in EnclaveTypes, r \in Reports :
          register_executor(caller, t, r, r) =>
             /\ CurrentPhase = "Creation"
             /\ (IF t = "IntelSGX" THEN sgx_executor' ELSE sev_executor') = caller
             /\ CurrentPhase' = IF sgx_executor' # NoAddr /\ sev_executor' # NoAddr
                                THEN "Executing" ELSE "Creation"]_vars

\* the second registration has filled the second slot
C20_Witness ==
    /\ CurrentPhase = "Executing"
    /\ sgx_executor # NoAddr /\ StoredKindIs(sgx_executor, "IntelSGX")
    /\ sev_executor # NoAddr /\ StoredKindIs(sev_executor, "AMDSEV")

\* C21: a register_executor step is taken only in Creation, with a report the
\* oracle validates for the declared kind, into an empty slot of that kind, by
\* a caller that is not in the watchdog set.
C21_RegisterExecutorGuards ==
    [][\A caller \in RegistryAddrs, t \in EnclaveTypes, r \in Reports :
          register_executor(caller, t, r, r) =>
             /\ CurrentPhase = "Creation"
             /\ verify_attestation_report(r, r, t)
             /\ (IF t = "IntelSGX" THEN sgx_executor ELSE sev_executor) = NoAddr
             /\ ~is_watchdog(caller)]_vars

\* C22: once the system is initialized, in whatever phase, init fails.
C22_SecondInitFails == SystemInitialized => ~ENABLED init

\* the system has been initialized and has moved on to a challenge
C22_Witness ==
    /\ SystemInitialized
    /\ CurrentPhase = "ChallengeExecutor"
    /\ ChallengeCount > 0

\* C23: a step stores a new challenge only when, before it, the system is
\* initialized, the phase is Executing, the challenger is in the watchdog set
\* and the challenged identity occupies an executor slot.
C23_ChallengeGuards ==
    [][\A id \in (DOMAIN Challenge') \ (DOMAIN Challenge) :
          /\ SystemInitialized
          /\ CurrentPhase = "Executing"
          /\ is_watchdog(Challenge'[id].challenger)
          /\ is_executor(Challenge'[id].challenged)]_vars

\* a challenge has just been created
C23_Witness ==
    \E id \in DOMAIN Challenge :
        /\ Challenge[id].status = "Pending"
        /\ Challenge[id].verification_proofs = <<>>
        /\ is_watchdog(Challenge[id].challenger)

\* C24: respond_to_challenge succeeds exactly when the caller is the challenged
\* identity, the status is Pending and now <= response_deadline; at
\* now = response_deadline it succeeds, at response_deadline + 1 it fails.
C24_RespondGuards ==
    \A id \in DOMAIN Challenge, caller \in Addrs, p \in Proofs, proof \in ChallengeProofs :
        (ENABLED respond_to_challenge(caller, id, p, proof)) <=>
            /\ caller = Challenge[id].challenged
            /\ Challenge[id].status = "Pending"
            /\ now <= Challenge[id].response_deadline

\* a challenge is still Pending at the very time of its deadline
C24_Witness ==
    \E id \in DOMAIN Challenge :
        /\ Challenge[id].status = "Pending"
        /\ now = Challenge[id].response_deadline

C26_RegisterWatchdogGuards ==
    [][\A caller \in Addrs, t \in EnclaveTypes, r \in Reports :
          register_ready_tee(caller, t, r, r) =>
             /\ CurrentPhase \in {"Creation", "Executing"}
             /\ ~is_watchdog(caller)
             /\ ~is_executor(caller)
             /\ verify_attestation_report(r, r, t)
             /\ watchdogs' = Append(watchdogs, <<caller, t>>)
             /\ CurrentPhase' = CurrentPhase]_vars

\* C28: a respond_to_challenge step is taken only with a proof whose witnesses
\* are all in the watchdog set.
C28_RespondChecksWitnesses ==
    [][\A caller \in Addrs, id \in DOMAIN Challenge, p \in Proofs, proof \in ChallengeProofs :
          respond_to_challenge(caller, id, p, proof) => verify_challenge_proof(proof)]_vars

C32_LateConflictingVoteAccepted ==
    \A id \in DOMAIN Challenge, w \in Addrs, p \in Proofs :
        (Challenge[id].status = "Verified" /\ is_watchdog(w) /\ ~HasVoted(w, id)) =>
            ENABLED verify_challenge_response(w, id, FALSE, p)

\* C33: a submit_heartbeat step is taken only by an executor or a watchdog; taken
\* by an executor it adds one to execution_count and sets last_execution_time to
\* the timestamp; taken by a watchdog it leaves the ExecutorPool as it was;
\* execution_count equals the number of heartbeats accepted from executors.
C33_HeartbeatCounting ==
    [][/\ \A caller \in Addrs :
             submit_heartbeat(caller) =>
                /\ is_executor(caller) \/ is_watchdog(caller)
                /\ is_executor(caller) =>
                      /\ execution_count' = execution_count + 1
                      /\ last_execution_time' = now
                /\ is_watchdog(caller) =>
                      UNCHANGED <<poolVars, execution_count, last_execution_time>>
       /\ execution_count' = heartbeats']_vars

\* C34: in a transaction of init_token_contract, stake_tokens, distribute_rewards
\* or create_governance_proposal no key of the contract is stored after the first
\* outbound call.
C34_WritesPrecedeOutboundCalls ==
    \A i \in 1..Len(effects), j \in 1..Len(effects) :
        (i < j /\ effects[i][1] = "call") => effects[j][1] # "store"

Unresolved == {id \in DOMAIN Challenge : Challenge[id].status \in {"Pending", "Responded"}}

C36_ChallengePhaseHasOpenChallenge ==
    CurrentPhase = "ChallengeExecutor" => Unresolved # {}

C38_SlotChangesOnlyAfterFailure ==
    [][\A occupant \in Addrs :
          (/\ occupant \in {sgx_executor, sev_executor}
           /\ (sgx_executor = occupant => sgx_executor' # occupant)
           /\ (sev_executor = occupant => sev_executor' # occupant)) =>
             \E id \in DOMAIN Challenge' :
                 /\ Challenge'[id].challenged = occupant
                 /\ Challenge'[id].status \in {"Failed", "Expired"}]_vars

C40_VerifyExecutionResultsReturns ==
    pool_pc = "idle" /\ state_lock = "free"
====
